---- MODULE Spec2Model ----
(***************************************************************************)
(* A model of fern's loggers (src/loggers.rs): DispatchLogger (constructor, *)
(* directive lookup, filtering, fan-out to the output loggers), the        *)
(* WriterLogger behind its Mutex, NullLogger, and log_with_fern_logger,    *)
(* the adapter to the `log` facade with its stderr backup.                 *)
(***************************************************************************)
EXTENDS Integers, Sequences, FiniteSets, TLC

VARIABLES
    \* arguments DispatchLogger::new is called with, and the records the
    \* program logs afterwards
    config_output, cfg_level, supplied, recs,
    \* the result of DispatchLogger::new
    new_result,
    \* the fields of the constructed DispatchLogger
    output, level, directives,
    \* the Write behind each WriterLogger of output, and the process's stderr
    streams, stderr, panicked,
    \* what the last call of log did
    call,
    \* one WriterLogger shared by concurrent callers
    wlock, wpc, wmsg, wstream, wres, wcalls

vars == <<config_output, cfg_level, supplied, recs, new_result, output, level,
          directives, streams, stderr, panicked, call,
          wlock, wpc, wmsg, wstream, wres, wcalls>>

dvars == <<config_output, cfg_level, supplied, recs, new_result, output, level,
           directives, streams, stderr, panicked, call>>

wvars == <<wlock, wpc, wmsg, wstream, wres, wcalls>>

----------------------------------------------------------------------------
(* Bounds of the model *)

\* longest directive list handed to DispatchLogger::new
MaxDirs == 2
\* longest list of output configs handed to DispatchLogger::new
MaxSinks == 2
\* log calls are cut off once a stream or stderr holds this many lines
MaxLines == 1
\* threads sharing the one WriterLogger
MaxCallers == 2
\* calls of WriterLogger::log the threads make in all
MaxWrites == 3

----------------------------------------------------------------------------
(* log::LogLevel and log::LogLevelFilter: Error is the smallest LogLevel,   *)
(* Trace the largest; Off is below every level.                            *)

Off == 0
Error == 1
Warn == 2
Info == 3
Debug == 4
Trace == 5

LogLevel == Error..Trace
LogLevelFilter == Off..Trace

----------------------------------------------------------------------------
(* Strings are sequences of characters. *)

S_app == <<"a", "p", "p">>
S_app_d == S_app \o <<":", ":", "d">>
S_app_db == S_app_d \o <<"b">>
S_app_db_pool == S_app_db \o <<":", ":", "p", "o", "o", "l">>
S_app_http == S_app \o <<":", ":", "h", "t", "t", "p">>
S_lib == <<"l", "i", "b">>

\* str::starts_with
starts_with(target, name) ==
    /\ Len(name) <= Len(target)
    /\ SubSeq(target, 1, Len(name)) = name

\* the positions of ds whose name is a prefix of target
MatchingIn(ds, target) == {i \in 1..Len(ds) : starts_with(target, ds[i].name)}

\* of those, the ones with the longest name
LongestIn(ds, target) ==
    {i \in MatchingIn(ds, target) :
       \A j \in MatchingIn(ds, target) : Len(ds[j].name) <= Len(ds[i].name)}

Max(S) == CHOOSE x \in S : \A y \in S : y <= x
Min(S) == CHOOSE x \in S : \A y \in S : x <= y

\* all sequences over S of length at most n
SeqUpTo(S, n) == UNION {[1..k -> S] : k \in 0..n}

----------------------------------------------------------------------------
(* Inputs *)

\* config::LogDirective
Directive(name, lvl) == [name |-> name, level |-> lvl]

\* the formatted line a config::Formatter closure builds from its arguments
format(msg, lvl, target) == [formatted |-> msg, level |-> lvl, location |-> target]

\* config::OutputConfig::into_fern_logger: Null gives a NullLogger, Stdout a
\* WriterLogger on stdout, and a File whose path cannot be opened the io::Error
SinkConfigs == {"Null", "Stdout", "BadFile"}

into_fern_logger(next, k) ==
    CASE next = "Null"    -> [ok |-> TRUE, logger |-> [kind |-> "NullLogger", from |-> k, line_sep |-> ""]]
      [] next = "Stdout"  -> [ok |-> TRUE, logger |-> [kind |-> "WriterLogger", from |-> k, line_sep |-> "\n"]]
      [] next = "BadFile" -> [ok |-> FALSE, logger |-> [kind |-> "None", from |-> k, line_sep |-> ""]]

----------------------------------------------------------------------------
(* DispatchLogger::new *)

\* a fold that converts the next config although an error was already found
fold_step_no_stop(processed, next, k) ==
    LET r == into_fern_logger(next, k) IN
    IF r.ok
    THEN [ok |-> processed.ok, vec |-> IF processed.ok THEN Append(processed.vec, r.logger) ELSE <<>>,
          err |-> processed.err, converted |-> Append(processed.converted, k)]
    ELSE [ok |-> FALSE, vec |-> <<>>, err |-> k,
          converted |-> Append(processed.converted, k)]

\* one step of the fold over config_output: an Err is passed along untouched,
\* otherwise the next config is converted and pushed
fold_step(processed, next, k) ==
    IF ~processed.ok
    THEN processed
    ELSE LET r == into_fern_logger(next, k) IN
         IF r.ok
         THEN [ok |-> TRUE, vec |-> Append(processed.vec, r.logger), err |-> 0,
               converted |-> Append(processed.converted, k)]
         ELSE [ok |-> FALSE, vec |-> <<>>, err |-> k,
               converted |-> Append(processed.converted, k)]

RECURSIVE fold_outputs(_, _)
fold_outputs(cfgs, k) ==
    IF k = 0
    THEN [ok |-> TRUE, vec |-> <<>>, err |-> 0, converted |-> <<>>]
    ELSE fold_step(fold_outputs(cfgs, k - 1), cfgs[k], k)

\* where a stable sort by name length puts d in an already sorted list
RECURSIVE insert_by_len(_, _)
insert_by_len(sorted, d) ==
    IF sorted = <<>>
    THEN <<d>>
    ELSE IF Len(sorted[Len(sorted)].name) <= Len(d.name)
         THEN Append(sorted, d)
         ELSE Append(insert_by_len(SubSeq(sorted, 1, Len(sorted) - 1), d),
                     sorted[Len(sorted)])

\* the directives left in the order they were supplied in
sort_by_nothing(ds) == ds

\* directives.sort_by(|a, b| a.name.len().cmp(&b.name.len())), a stable sort
RECURSIVE sort_by(_)
sort_by(ds) ==
    IF ds = <<>>
    THEN <<>>
    ELSE insert_by_len(sort_by(SubSeq(ds, 1, Len(ds) - 1)), ds[Len(ds)])

NoCall ==
    [entry |-> "none", msg |-> "", level |-> Off, target |-> <<>>,
     dispatched |-> FALSE, checked |-> "skipped", io |-> <<>>, ok |-> TRUE,
     err |-> 0, formats |-> 0, new_msg |-> format("", Off, <<>>),
     invoked |-> <<>>, backup |-> "none"]

New ==
    /\ new_result.state = "pending"
    /\ \E r \in {fold_outputs(config_output, Len(config_output))} :
       IF r.ok
       THEN /\ new_result' = [state |-> "Ok", err |-> 0, converted |-> r.converted]
            /\ output' = r.vec
            /\ level' = cfg_level
            /\ directives' = sort_by(supplied)
            /\ streams' = [k \in 1..Len(r.vec) |-> <<>>]
       ELSE /\ new_result' = [state |-> "Err", err |-> r.err, converted |-> r.converted]
            /\ UNCHANGED <<output, level, directives, streams>>
    /\ UNCHANGED <<config_output, cfg_level, supplied, recs, stderr, panicked, call>>
    /\ UNCHANGED wvars

----------------------------------------------------------------------------
(* DispatchLogger::directive_check *)

\* the scan of self.directives.iter().rev() from position i down
RECURSIVE scan_rev(_, _, _, _)
scan_rev(ds, i, lvl, target) ==
    IF i = 0
    THEN FALSE
    ELSE IF starts_with(target, ds[i].name)
         THEN lvl >= ds[i].level
         ELSE scan_rev(ds, i - 1, lvl, target)

\* a scan from the front: the shortest matching name decides
directive_check_shortest(ds, lvl, target) ==
    IF MatchingIn(ds, target) = {}
    THEN FALSE
    ELSE lvl >= ds[Min(MatchingIn(ds, target))].level

\* a lookup that answers true when no directive matches
directive_check_default_true(ds, lvl, target) ==
    MatchingIn(ds, target) = {} \/ scan_rev(ds, Len(ds), lvl, target)

directive_check(ds, lvl, target) == scan_rev(ds, Len(ds), lvl, target)

\* a filter that leaves the decision to the directives alone
filtered_by_directives_only(glevel, ds, lvl, target) ==
    directive_check(ds, lvl, target)

\* the condition under which api::Logger::log of DispatchLogger returns Ok(())
\* before formatting
filtered(glevel, ds, lvl, target) ==
    lvl > glevel \/ directive_check(ds, lvl, target)

----------------------------------------------------------------------------
(* The output loggers *)

\* what the underlying Write does with one call of WriterLogger::log
IoOutcomes == {"ok", "err_msg", "err_sep"}

MsgPiece(m) == [part |-> "msg", msg |-> m, sep |-> ""]
SepPiece(sep) == [part |-> "sep", msg |-> format("", Off, <<>>), sep |-> sep]

\* a WriterLogger that forgets the line separator
writer_log_no_sep(logger, stream, msg, io) ==
    CASE io = "ok"      -> [ok |-> TRUE, stream |-> Append(stream, MsgPiece(msg))]
      [] io = "err_msg" -> [ok |-> FALSE, stream |-> stream]
      [] io = "err_sep" -> [ok |-> FALSE, stream |-> Append(stream, MsgPiece(msg))]

\* <WriterLogger as api::Logger>::log on an uncontended lock: write!("{}{}")
\* writes msg, then line_sep, and stops at the first io::Error
writer_log(logger, stream, msg, io) ==
    CASE io = "ok"      -> [ok |-> TRUE, stream |-> stream \o <<MsgPiece(msg), SepPiece(logger.line_sep)>>]
      [] io = "err_msg" -> [ok |-> FALSE, stream |-> stream]
      [] io = "err_sep" -> [ok |-> FALSE, stream |-> Append(stream, MsgPiece(msg))]

\* <NullLogger as api::Logger>::log
null_log(stream) == [ok |-> TRUE, stream |-> stream]

logger_log(logger, stream, msg, io) ==
    IF logger.kind = "WriterLogger"
    THEN writer_log(logger, stream, msg, io)
    ELSE null_log(stream)

----------------------------------------------------------------------------
(* <DispatchLogger as api::Logger>::log *)

\* a fan-out that goes on to the next logger after a failure and returns the
\* last error
RECURSIVE fan_out_all(_, _, _, _, _)
fan_out_all(out, k, new_msg, io, acc) ==
    IF k > Len(out)
    THEN acc
    ELSE LET r == logger_log(out[k], acc.streams[k], new_msg, io[k]) IN
         fan_out_all(out, k + 1, new_msg, io,
                     [acc EXCEPT !.streams[k] = r.stream,
                                 !.invoked = Append(@, [logger |-> k, msg |-> new_msg]),
                                 !.ok = @ /\ r.ok,
                                 !.err = IF r.ok THEN @ ELSE k])

\* for logger in &self.output { try!(logger.log(&new_msg, ..)) } from logger k on
RECURSIVE fan_out(_, _, _, _, _)
fan_out(out, k, new_msg, io, acc) ==
    IF k > Len(out)
    THEN acc
    ELSE LET r == logger_log(out[k], acc.streams[k], new_msg, io[k]) IN
         IF r.ok
         THEN fan_out(out, k + 1, new_msg, io,
                      [acc EXCEPT !.streams[k] = r.stream,
                                  !.invoked = Append(@, [logger |-> k, msg |-> new_msg])])
         ELSE [acc EXCEPT !.streams[k] = r.stream,
                          !.invoked = Append(@, [logger |-> k, msg |-> new_msg]),
                          !.ok = FALSE, !.err = k]

dispatch_log(msg, lvl, target, io) ==
    LET start == [ok |-> TRUE, err |-> 0, formats |-> 0, checked |-> "skipped",
                  new_msg |-> format("", Off, <<>>), invoked |-> <<>>,
                  streams |-> streams]
        \* || evaluates directive_check only when the level is within self.level
        checked == IF lvl > level THEN "skipped"
                   ELSE IF directive_check(directives, lvl, target) THEN "true"
                   ELSE "false"
    IN IF filtered(level, directives, lvl, target)
       THEN [start EXCEPT !.checked = checked]
       ELSE LET new_msg == format(msg, lvl, target) IN
            fan_out(output, 1, new_msg, io,
                    [start EXCEPT !.formats = 1, !.new_msg = new_msg,
                                  !.checked = checked])

Running ==
    /\ new_result.state = "Ok"
    /\ panicked = <<>>
    /\ Len(stderr) < MaxLines
    /\ \A k \in DOMAIN streams : Len(streams[k]) < 2 * MaxLines

\* what the Writes do during one call: all succeed, or from some WriterLogger
\* on a Write returns an io::Error, alone or followed by every later one
IoChoices ==
    LET n == Len(output)
        writers == {j \in 1..n : output[j].kind = "WriterLogger"}
    IN {[k \in 1..n |-> "ok"]} \cup
       {[k \in 1..n |-> IF k = f THEN e
                        ELSE IF k > f /\ k \in writers /\ later THEN "err_msg"
                        ELSE "ok"] :
          f \in writers, e \in IoOutcomes \ {"ok"}, later \in BOOLEAN}

\* a direct call of api::Logger::log on the DispatchLogger
ApiLog ==
    /\ Running
    /\ \E rec \in recs, io \in IoChoices :
       \E r \in {dispatch_log(rec.msg, rec.level, rec.target, io)} :
         /\ streams' = r.streams
         /\ call' = [entry |-> "api", msg |-> rec.msg, level |-> rec.level,
                     target |-> rec.target, dispatched |-> TRUE,
                     checked |-> r.checked, io |-> io, ok |-> r.ok,
                     err |-> r.err, formats |-> r.formats, new_msg |-> r.new_msg,
                     invoked |-> r.invoked, backup |-> "none"]
    /\ UNCHANGED <<config_output, cfg_level, supplied, recs, new_result, output,
                   level, directives, stderr, panicked>>
    /\ UNCHANGED wvars

----------------------------------------------------------------------------
(* <DispatchLogger as log::Log>::log and log_with_fern_logger *)

\* the text written to stderr when logging failed
Diagnostic(lvl, target, args_formatted, e) ==
    [level |-> lvl, location |-> target, arguments |-> args_formatted, error |-> e]

\* an adapter that drops the error
log_with_fern_logger_silent(r, rec, backup_ok) ==
    [stderr |-> stderr, panicked |-> panicked, backup |-> "none"]

\* log_with_fern_logger after api::Logger::log has returned r: on Err(e) the
\* diagnostic is written to stderr, and if that write fails too, panic!
log_with_fern_logger(r, rec, backup_ok) ==
    LET shown == Diagnostic(rec.level, rec.target, rec.msg, r.err) IN
    IF r.ok
    THEN [stderr |-> stderr, panicked |-> panicked, backup |-> "none"]
    ELSE IF backup_ok
         THEN [stderr |-> Append(stderr, shown), panicked |-> panicked,
               backup |-> "written"]
         ELSE [stderr |-> stderr,
               panicked |-> <<[record |-> shown, error |-> r.err,
                               backup_error |-> "stderr"]>>,
               backup |-> "failed"]

\* a call through the log facade; backup_ok is whether the write to stderr works
FacadeLog ==
    /\ Running
    /\ \E rec \in recs, io \in IoChoices, backup_ok \in BOOLEAN :
         IF rec.level > level
         THEN /\ call' = [NoCall EXCEPT !.entry = "facade", !.msg = rec.msg,
                                        !.level = rec.level, !.target = rec.target]
              /\ UNCHANGED <<streams, stderr, panicked>>
         ELSE \E r \in {dispatch_log(rec.msg, rec.level, rec.target, io)} :
              \E b \in {log_with_fern_logger(r, rec, backup_ok)} :
                 /\ streams' = r.streams
                 /\ call' = [entry |-> "facade", msg |-> rec.msg, level |-> rec.level,
                             target |-> rec.target, dispatched |-> TRUE,
                             checked |-> r.checked, io |-> io, ok |-> r.ok,
                             err |-> r.err, formats |-> r.formats,
                             new_msg |-> r.new_msg, invoked |-> r.invoked,
                             backup |-> b.backup]
                 /\ stderr' = b.stderr
                 /\ panicked' = b.panicked
    /\ UNCHANGED <<config_output, cfg_level, supplied, recs, new_result, output,
                   level, directives>>
    /\ UNCHANGED wvars

----------------------------------------------------------------------------
(* One WriterLogger called from several threads *)

Callers == 1..MaxCallers

\* a lock that is handed out while another thread holds it
lock_granted_always(c) == TRUE

\* sync::Mutex::lock returns the guard only while no other thread holds one
lock_granted(c) == wlock = 0

\* self.writer.lock(): the call begins by taking the guard
WLock(c) ==
    /\ wpc[c] = "idle"
    /\ wcalls < MaxWrites
    /\ lock_granted(c)
    /\ wlock' = c
    /\ wcalls' = wcalls + 1
    /\ wmsg' = [wmsg EXCEPT ![c] = wcalls + 1]
    /\ wpc' = [wpc EXCEPT ![c] = "msg"]
    /\ UNCHANGED <<wstream, wres>>
    /\ UNCHANGED dvars

\* write!(guard, "{}{}", msg, line_sep): the first piece, msg
WWriteMsg(c) ==
    /\ wpc[c] = "msg"
    /\ \E io_ok \in BOOLEAN :
         IF io_ok
         THEN /\ wstream' = Append(wstream, [by |-> c, n |-> wmsg[c], part |-> "msg"])
              /\ wpc' = [wpc EXCEPT ![c] = "sep"]
         ELSE /\ wstream' = wstream
              /\ wpc' = [wpc EXCEPT ![c] = "err"]
    /\ UNCHANGED <<wlock, wmsg, wres, wcalls>>
    /\ UNCHANGED dvars

\* the second piece, line_sep
WWriteSep(c) ==
    /\ wpc[c] = "sep"
    /\ \E io_ok \in BOOLEAN :
         IF io_ok
         THEN /\ wstream' = Append(wstream, [by |-> c, n |-> wmsg[c], part |-> "sep"])
              /\ wpc' = [wpc EXCEPT ![c] = "ok"]
         ELSE /\ wstream' = wstream
              /\ wpc' = [wpc EXCEPT ![c] = "err"]
    /\ UNCHANGED <<wlock, wmsg, wres, wcalls>>
    /\ UNCHANGED dvars

\* the guard is a temporary of the write! statement: it is dropped when the
\* statement ends, also when try! returns the error; then log returns
WReturn(c) ==
    /\ wpc[c] \in {"ok", "err"}
    /\ wlock' = IF wlock = c THEN 0 ELSE wlock
    /\ wres' = [wres EXCEPT ![wmsg[c]] = wpc[c]]
    /\ wpc' = [wpc EXCEPT ![c] = "idle"]
    /\ UNCHANGED <<wmsg, wstream, wcalls>>
    /\ UNCHANGED dvars

----------------------------------------------------------------------------
(* Specifications *)

Names == {S_app, S_app_d, S_app_db}
Targets == {S_app_db_pool, S_app_http, S_lib}
DirLevels == {Warn, Info, Debug}
Records == [msg : {"m"}, level : LogLevel, target : Targets]

DispatcherInit(outs, lvls, dirs, rs) ==
    /\ config_output \in outs
    /\ cfg_level \in lvls
    /\ supplied \in dirs
    /\ recs \in rs
    /\ new_result = [state |-> "pending", err |-> 0, converted |-> <<>>]
    /\ output = <<>>
    /\ level = Off
    /\ directives = <<>>
    /\ streams = <<>>
    /\ stderr = <<>>
    /\ panicked = <<>>
    /\ call = NoCall

WriterInit ==
    /\ wlock = 0
    /\ wpc = [c \in Callers |-> "idle"]
    /\ wmsg = [c \in Callers |-> 0]
    /\ wstream = <<>>
    /\ wres = [n \in 1..MaxWrites |-> "none"]
    /\ wcalls = 0

\* every list of output configs, two thresholds, one directive, three records
Init ==
    /\ DispatcherInit(SeqUpTo(SinkConfigs, MaxSinks), {Info, Trace},
                      {<<Directive(S_app_db, Debug)>>},
                      {{r \in Records : (r.target = S_app_http /\ r.level \in {Error, Debug})
                                         \/ (r.target = S_app_db_pool /\ r.level = Debug)}})
    /\ WriterInit

\* every directive list and threshold, every record, one kind of record per
\* run; the logger that receives what passes is a NullLogger
FilterInit ==
    /\ DispatcherInit({<<"Null">>, <<"Stdout", "BadFile">>}, LogLevelFilter,
                      SeqUpTo({Directive(n, l) : n \in Names, l \in DirLevels}, MaxDirs),
                      {{r} : r \in Records})
    /\ WriterInit

\* no DispatchLogger, only the shared WriterLogger
SharedInit ==
    /\ DispatcherInit({<<>>}, {Off}, {<<>>}, {{}})
    /\ WriterInit

Next == New \/ ApiLog \/ FacadeLog

WriterNext == \E c \in Callers : WLock(c) \/ WWriteMsg(c) \/ WWriteSep(c) \/ WReturn(c)

Spec == Init /\ [][Next]_vars

FilterSpec == FilterInit /\ [][Next]_vars

WriterSpec == SharedInit /\ [][WriterNext]_vars

----------------------------------------------------------------------------
(* Properties *)

\* the last call formatted its record and handed the line to the first logger
Delivered ==
    /\ call.formats = 1
    /\ call.invoked # <<>>
    /\ call.invoked[1] = [logger |-> 1, msg |-> format(call.msg, call.level, call.target)]

\* the last call returned Ok(()) without formatting or touching a logger
Suppressed ==
    /\ call.ok
    /\ call.formats = 0
    /\ call.invoked = <<>>

Scenario ==
    /\ new_result.state = "Ok"
    /\ level = Info
    /\ supplied = <<Directive(S_app_db, Debug)>>
    /\ call.entry = "api"
    /\ call.level = Debug

\* C1 as stated: with threshold Info and the directive ("app::db", Debug), a
\* Debug record from "app::db::pool" is delivered and a Debug record from
\* "app::http" is suppressed.
C1_AsStated ==
    Scenario =>
        /\ call.target = S_app_db_pool => Delivered
        /\ call.target = S_app_http => Suppressed

\* C1 amended: with threshold Info and the directive ("app::db", Debug), a
\* Debug record from "app::db::pool" and a Debug record from "app::http" are
\* both suppressed: log returns Ok(()) and no logger receives anything.
C1_BothSuppressed ==
    (Scenario /\ call.target \in {S_app_db_pool, S_app_http}) => Suppressed

C1_Witness == Scenario /\ call.target = S_app_db_pool /\ call.dispatched

\* C2: when the longest-named directive whose name is a prefix of the origin
\* has level L, a record from that origin with a severity at least as severe
\* as L (equality included) that also meets the global threshold is delivered.
C2_DecidingDirectivePasses ==
    (new_result.state = "Ok" /\ call.entry = "api"
       /\ MatchingIn(supplied, call.target) # {}) =>
        LET d == supplied[Max(LongestIn(supplied, call.target))] IN
        (call.level <= d.level /\ call.level <= level) => Delivered

DistinctNames(ds) ==
    \A i, j \in 1..Len(ds) : i # j => ds[i].name # ds[j].name

Reordered(ds) ==
    {[i \in 1..Len(ds) |-> ds[p[i]]] : p \in Permutations(1..Len(ds))}

\* C3: when some directive matches the origin, the lookup answers what a
\* table holding only the longest-named matching directive answers (the last
\* supplied one of them); giving a shorter matching directive another level
\* does not change the answer, nor does supplying directives with distinct
\* names in another order.
C3_LongestDecides ==
    (new_result.state = "Ok" /\ call.checked # "skipped"
       /\ MatchingIn(supplied, call.target) # {}) =>
        LET answer == (call.checked = "true")
            longest == LongestIn(supplied, call.target)
        IN /\ answer = directive_check(<<supplied[Max(longest)]>>, call.level, call.target)
           /\ \A i \in MatchingIn(supplied, call.target) \ longest :
              \A l \in LogLevelFilter :
                answer = directive_check(sort_by([supplied EXCEPT ![i].level = l]),
                                         call.level, call.target)
           /\ DistinctNames(supplied) =>
                \A q \in Reordered(supplied) :
                  answer = directive_check(sort_by(q), call.level, call.target)

\* the longer matching directive was supplied first and disagrees with the
\* shorter one about the record
C3_Witness ==
    /\ new_result.state = "Ok"
    /\ supplied = <<Directive(S_app_db, Debug), Directive(S_app, Warn)>>
    /\ call.target = S_app_db_pool
    /\ call.level = Info
    /\ call.checked = "false"

FirstFailing(io) == Min({k \in DOMAIN io : io[k] # "ok"})

\* C4: when a record passes the filter and logger i is the first whose
\* delivery fails, log returns the error of logger i, loggers 1..i have each
\* been called once with the formatted message, in order, and no later logger
\* is called.
C4_StopsAtFirstFailure ==
    (call.dispatched /\ call.formats = 1 /\ \E k \in DOMAIN call.io : call.io[k] # "ok") =>
        /\ ~call.ok
        /\ call.err = FirstFailing(call.io)
        /\ call.invoked = [k \in 1..FirstFailing(call.io) |->
                             [logger |-> k, msg |-> call.new_msg]]

\* the first of two WriterLoggers failed and the second would have failed too
C4_Witness ==
    /\ call.entry = "api"
    /\ Len(output) = 2
    /\ call.io = <<"err_sep", "err_msg">>
    /\ ~call.ok
    /\ Len(call.invoked) = 1

\* C5: in a call whose record passes the filter and in which no Write fails,
\* the formatter runs once, every logger of output is called once with that
\* formatted message, in the order of output, every WriterLogger appends the
\* message and its line separator to its own stream, and log returns Ok(()).
C5_Step ==
    (/\ call'.dispatched
     /\ \A k \in DOMAIN call'.io : call'.io[k] = "ok"
     /\ ~filtered(level, directives, call'.level, call'.target)) =>
        /\ call'.ok
        /\ call'.formats = 1
        /\ call'.new_msg = format(call'.msg, call'.level, call'.target)
        /\ call'.invoked = [k \in 1..Len(output) |-> [logger |-> k, msg |-> call'.new_msg]]
        /\ DOMAIN streams' = DOMAIN streams
        /\ \A k \in 1..Len(output) :
             streams'[k] = IF output[k].kind = "WriterLogger"
                           THEN streams[k] \o <<MsgPiece(call'.new_msg),
                                                SepPiece(output[k].line_sep)>>
                           ELSE streams[k]

C5_FanOutComplete == [][C5_Step]_vars

C5_Witness ==
    /\ call.dispatched
    /\ call.ok
    /\ Len(output) = 2
    /\ output[1].kind = "WriterLogger"
    /\ output[2].kind = "WriterLogger"
    /\ Len(streams[1]) = 2
    /\ streams[1] = streams[2]

\* C6: in a call through the facade, when dispatch returns an error, one
\* diagnostic holding the level, the location, the message and the error is
\* appended to stderr, or, when that write fails, the process panics with both
\* errors; when dispatch returns Ok(()) or is not reached, stderr is left as
\* it is and nothing panics.
C6_Step ==
    call'.entry = "facade" =>
        LET shown == Diagnostic(call'.level, call'.target, call'.msg, call'.err) IN
        IF call'.ok
        THEN stderr' = stderr /\ panicked' = <<>>
        ELSE \/ stderr' = Append(stderr, shown) /\ panicked' = <<>>
             \/ /\ stderr' = stderr
                /\ panicked' = <<[record |-> shown, error |-> call'.err,
                                  backup_error |-> "stderr"]>>

C6_FallbackReported == [][C6_Step]_vars

C6_Witness ==
    /\ call.entry = "facade"
    /\ ~call.ok
    /\ stderr = <<Diagnostic(call.level, call.target, call.msg, call.err)>>

\* C7: at most one caller is inside WriterLogger::log's write, and it is the
\* holder of the lock; the lock is free once the call has returned, with Ok
\* or with an error; and the pieces of every message are adjacent in the
\* stream: a line separator directly follows the message of its own call.
C7_WritesSerialized ==
    /\ \A c \in Callers : wpc[c] # "idle" => wlock = c
    /\ \A c \in Callers : wpc[c] = "idle" => wlock # c
    /\ \A i \in 1..Len(wstream) :
         wstream[i].part = "sep" =>
           /\ i > 1
           /\ wstream[i - 1] = [wstream[i] EXCEPT !.part = "msg"]
    /\ \A n \in 1..MaxWrites :
         wres[n] = "ok" =>
           \E i \in 1..Len(wstream) - 1 :
             /\ wstream[i].n = n /\ wstream[i].part = "msg"
             /\ wstream[i + 1].n = n /\ wstream[i + 1].part = "sep"

\* a call has failed, another caller's has succeeded, a third is in the
\* middle of its line while the other caller is back outside
C7_Witness ==
    /\ wres[1] = "err"
    /\ wres[2] = "ok"
    /\ Len(wstream) >= 2
    /\ wstream[1].by # wstream[Len(wstream)].by
    /\ \E c \in Callers : wpc[c] = "sep"

BadConfigs ==
    {k \in 1..Len(config_output) : ~into_fern_logger(config_output[k], k).ok}

\* C8: once new has returned: if config i is the first whose conversion
\* fails, new returned that error, it converted configs 1..i and no later
\* one, and no DispatchLogger and none of the loggers built exist; if none
\* fails, output holds the converted configs in the supplied order.
C8_ConstructorFailsFast ==
    new_result.state # "pending" =>
        IF BadConfigs # {}
        THEN /\ new_result.state = "Err"
             /\ new_result.err = Min(BadConfigs)
             /\ new_result.converted = [k \in 1..Min(BadConfigs) |-> k]
             /\ output = <<>>
             /\ call = NoCall
        ELSE /\ new_result.state = "Ok"
             /\ new_result.converted = [k \in 1..Len(config_output) |-> k]
             /\ output = [k \in 1..Len(config_output) |->
                            into_fern_logger(config_output[k], k).logger]

C8_Witness ==
    /\ new_result.state = "Err"
    /\ config_output = <<"BadFile", "Stdout">>

\* C9: when no directive's name is a prefix of the origin, the record is
\* delivered if and only if its level is within the global threshold, and
\* otherwise suppressed, as with an empty directive table.
C9_GlobalThresholdOnly ==
    (new_result.state = "Ok" /\ call.entry # "none"
       /\ MatchingIn(supplied, call.target) = {}) =>
        /\ Delivered <=> call.level <= level
        /\ Suppressed <=> call.level > level
        /\ Delivered <=> ~filtered(level, <<>>, call.level, call.target)

C9_Witness ==
    /\ new_result.state = "Ok"
    /\ call.entry = "api"
    /\ supplied # <<>>
    /\ MatchingIn(supplied, call.target) = {}
    /\ Delivered

SortedByLen(ds) ==
    \A i, j \in 1..Len(ds) : i < j => Len(ds[i].name) <= Len(ds[j].name)

Occurrences(ds, d) == Cardinality({i \in 1..Len(ds) : ds[i] = d})

SameDirectives(a, b) ==
    /\ Len(a) = Len(b)
    /\ \A i \in 1..Len(a) : Occurrences(a, a[i]) = Occurrences(b, a[i])

\* C10: the directive table of a constructed DispatchLogger holds the
\* supplied directives, each as often as supplied, in non-decreasing order of
\* name length, and no later step changes the table.
C10_TableSorted ==
    /\ [](new_result.state = "Ok" =>
            SortedByLen(directives) /\ SameDirectives(directives, supplied))
    /\ [][new_result.state = "Ok" => directives' = directives]_vars

\* a table supplied longest name first, after a call
C10_Witness ==
    /\ new_result.state = "Ok"
    /\ Len(supplied) = 2
    /\ Len(supplied[1].name) > Len(supplied[2].name)
    /\ directives = <<supplied[2], supplied[1]>>
    /\ call.dispatched

====
